---- MODULE Spec2Model ----
(***************************************************************************)
(* State-machine model of the FaceFusion service:                          *)
(*   - facefusion_job.py : module-level registry tasks / task_logs, the    *)
(*     coroutine run_facefusion_with_ray_job, the asyncio task             *)
(*     _run_subprocess and the reader get_task_status;                     *)
(*   - facefusion_actor.py : FaceFusionActor (one task map per actor);     *)
(*   - main_serve.py : FaceFusionService.face_swap / get_status, the       *)
(*     FileManager and the cleanup thread.                                 *)
(* Every action is one atomic stretch of code: for coroutines the code     *)
(* between two awaits, for the actor the code before and after the         *)
(* blocking subprocess.run call.  Status queries only read: they are the   *)
(* operators get_task_status, actor_get_task_status and get_status,        *)
(* evaluated in whatever state a caller issues them.                       *)
(*                                                                         *)
(* The repository holds two task engines that share no state and are never *)
(* loaded together: main_serve.py imports facefusion_actor only, and       *)
(* nothing imports facefusion_job.  `program` says which one this process  *)
(* runs.                                                                   *)
(***************************************************************************)
EXTENDS Integers, Sequences, FiniteSets, TLC

\* ------------------------------------------------------------------ bounds
MaxTasks == 2      \* task ids are 1..MaxTasks
MaxLines == 2      \* lines the external processes write, all together
MaxRc    == 1      \* exit codes are 0..MaxRc
MaxDays  == 7      \* the cleanup thread's clock stops after MaxDays days
PipeCapacity == 1  \* stderr lines the pipe and its StreamReader hold unread
MaxFailing == 1    \* entries whose stat/unlink raises in one cleanup cycle

\* ------------------------------------------------------- program constants
CLEANUP_SLEEP == 86400
RETRY_SLEEP   == 3600
CUTOFF_DAYS   == 5
DAY_SECONDS   == 86400

TaskIds == 1..MaxTasks
ExitCodes == 0..MaxRc
Streams == {"stdout", "stderr"}

\* Uploaded file names as (stem, suffix); the suffix may be empty.
Filenames == {<<"face", ".jpg">>, <<"clip", ".mp4">>}

\* Values of the execution-provider option.
Providers == {"cuda", "cpu"}

VARIABLES
    program,      \* "facefusion_job" or "main_serve": the engine in use
    tasks,        \* facefusion_job.tasks: dict task_id -> status
    task_logs,    \* facefusion_job.task_logs: dict task_id -> list of lines
    jobPc,        \* per id: where the _run_subprocess asyncio task stands
    jobInputs,    \* per id: <<source exists, target exists>> at submission
    emitted,      \* per id: streams of the lines the process wrote, in order
    outRead,      \* per id: number of stdout lines the runner has consumed
    proc,         \* per id: the external process: "none", "running",
                  \*   "blocked" (inside a write to a full pipe), "exited"
    returncode,   \* per id: its exit code (meaningful once exited)
    httpPc,       \* per id: where the face_swap request handler stands
    outputPath,   \* per id: output_path computed by face_swap
    actorTasks,   \* per actor: FaceFusionActor.tasks
    actorPc,      \* per id: where process_face_fusion stands on its actor
    actorReturn,  \* per id: the dict process_face_fusion returned
    now,          \* wall clock, seconds
    uploads,      \* UPLOAD_DIR: dict file name -> st_mtime
    reaperPc,     \* the cleanup thread: "ready" or "sleeping"
    sleepFor,     \* argument of the cleanup thread's last time.sleep
    listFailed,   \* the last cleanup cycle could not enumerate UPLOAD_DIR
    failedFiles,  \* entries whose stat/unlink raised in the last cleanup cycle
    outputs,      \* OUTPUT_DIR: dict file name -> st_mtime
    submitted,    \* per id: the arguments the orchestration unit was given
    argv          \* per id: the argument list the external process got

jobVars    == <<tasks, task_logs, jobPc, jobInputs, emitted, outRead>>
procVars   == <<proc, returncode>>
httpVars   == <<httpPc, outputPath>>
actorVars  == <<actorTasks, actorPc, actorReturn>>
reaperVars == <<now, reaperPc, sleepFor, listFailed, failedFiles>>
vars == <<program, tasks, task_logs, jobPc, jobInputs, emitted, outRead, proc,
          returncode, httpPc, outputPath, actorTasks, actorPc, actorReturn,
          now, uploads, reaperPc, sleepFor, listFailed, failedFiles, outputs,
          submitted, argv>>

\* ----------------------------------------------------------- python dicts
EmptyDict == <<>>
Put(d, k, v) == [x \in (DOMAIN d) \cup {k} |-> IF x = k THEN v ELSE d[x]]
Get(d, k, default) == IF k \in DOMAIN d THEN d[k] ELSE default
Remove(d, ks) == [x \in (DOMAIN d) \ ks |-> d[x]]

None == <<>>
Terminal == {"completed", "failed"}

IsPrefix(s, t) == Len(s) <= Len(t) /\ \A i \in 1..Len(s) : s[i] = t[i]

\* Fresh with job ids that callers use again: only face_swap's are unique.
Fresh_IdReused(t) == httpPc[t] = "none"

\* An id is fresh until face_swap (uuid4) or a job submission has used it.
Fresh(t) == jobPc[t] = "none" /\ httpPc[t] = "none"

\* ------------------------------------------------------------ config.py
UPLOAD_DIR == "uploads"
OUTPUT_DIR == "outputs"
FACEFUSION_SCRIPT == "facefusion.py"
EXECUTION_PROVIDER == "cuda"

\* Path(filename).suffix
Suffix(filename) == filename[2]

\* OUTPUT_DIR / f"{task_id}_output{extension}"
OutputPathFor(t, extension) == <<OUTPUT_DIR, t, "_output", extension>>

\* UPLOAD_DIR / f"{uid}_{upload_file.filename}"
UploadPathFor(uid, filename) == <<UPLOAD_DIR, uid, filename>>

\* ------------------------------------------------------------ log lines
\* A log line is <<text, id of the task whose code or process produced it, n>>.
Line(text, t, n) == <<text, t, n>>

HeaderLines(t) ==
    << Line("Starting task", t, 0), Line("Source:", t, 0),
       Line("Target:", t, 0), Line("Output:", t, 0) >>

\* Positions in emitted[t] of the lines written to stream s, in order.
RECURSIVE PositionsOf(_, _, _)
PositionsOf(seq, s, i) ==
    IF i > Len(seq) THEN <<>>
    ELSE (IF seq[i] = s THEN <<i>> ELSE <<>>) \o PositionsOf(seq, s, i + 1)

\* Lines written so far by all processes.
RECURSIVE TotalLines(_)
TotalLines(ids) ==
    IF ids = {} THEN 0
    ELSE LET t == CHOOSE x \in ids : TRUE
         IN Len(emitted[t]) + TotalLines(ids \ {t})

StdoutPositions(t) == PositionsOf(emitted[t], "stdout", 1)
StderrPositions(t) == PositionsOf(emitted[t], "stderr", 1)

\* f"ERROR: {error_line}" for every line of the captured stderr
ErrorLines(t) ==
    [ i \in 1..Len(StderrPositions(t)) |->
        Line("ERROR:", t, StderrPositions(t)[i]) ]

\* ======================================================================
\* facefusion_job.py
\* ======================================================================

\* get_task_status(task_id) -> (status, logs); the tuple carries no result.
get_task_status(t) ==
    [ status |-> Get(tasks, t, "not_found"),
      logs   |-> Get(task_logs, t, <<>>),
      result |-> None ]

\* AppendLog with one list object shared by every task's entry.
AppendLog_SharedList(logs, t, line) == [k \in DOMAIN logs |-> Append(logs[k], line)]

\* task_logs[task_id].append(line)
AppendLog(logs, t, line) == [logs EXCEPT ![t] = Append(@, line)]

\* The arguments of a call run_facefusion_with_ray_job(task_id, source_path,
\* target_path, output_path, execution_provider); a caller that leaves the
\* last one out passes EXECUTION_PROVIDER.
JobArguments(t, execution_provider) ==
    [ source_path |-> <<"job", t, "source">>,
      target_path |-> <<"job", t, "target">>,
      output_path |-> <<"job", t, "output">>,
      execution_provider |-> execution_provider ]

\* The command list of _run_subprocess (lines 80-91); every word is a tuple.
Arg(word) == <<word>>
JobCommand(a) ==
    << Arg("ray"), Arg("job"), Arg("submit"), Arg("--address=auto"), Arg("--"),
       Arg("python"), Arg(FACEFUSION_SCRIPT), Arg("headless-run"),
       Arg("-s"), a.source_path, Arg("-t"), a.target_path,
       Arg("-o"), a.output_path,
       Arg("--execution-provider"), Arg(a.execution_provider) >>

\* RunFacefusionWithRayJob with an await between creating the status entry
\* and creating the logs entry: the first call stores the status, the
\* resumption stores the logs and schedules the runner.
RunFacefusionWithRayJob_AwaitBetween(t, srcExists, tgtExists, execution_provider) ==
    /\ program = "facefusion_job"
    /\ Fresh(t)
    /\ IF t \notin DOMAIN tasks
       THEN /\ tasks' = Put(tasks, t, "processing")
            /\ UNCHANGED <<task_logs, jobPc, jobInputs, submitted>>
       ELSE /\ task_logs' = Put(task_logs, t, HeaderLines(t))
            /\ jobPc' = [jobPc EXCEPT ![t] = "created"]
            /\ jobInputs' = [jobInputs EXCEPT ![t] = <<srcExists, tgtExists>>]
            /\ submitted' = [submitted EXCEPT ![t] =
                                JobArguments(t, execution_provider)]
            /\ UNCHANGED tasks
    /\ UNCHANGED <<emitted, outRead, procVars, httpVars, actorVars,
                   uploads, reaperVars, program, outputs, argv>>

\* run_facefusion_with_ray_job: creates the record and schedules
\* _run_subprocess with asyncio.create_task; it awaits nothing, so it has
\* returned before the scheduled task runs its first statement.  The paths
\* are not examined: srcExists / tgtExists only record what the caller passed.
RunFacefusionWithRayJob(t, srcExists, tgtExists, execution_provider) ==
    /\ program = "facefusion_job"
    /\ Fresh(t)
    /\ tasks' = Put(tasks, t, "processing")
    /\ task_logs' = Put(task_logs, t, HeaderLines(t))
    /\ jobPc' = [jobPc EXCEPT ![t] = "created"]
    /\ jobInputs' = [jobInputs EXCEPT ![t] = <<srcExists, tgtExists>>]
    /\ submitted' = [submitted EXCEPT ![t] = JobArguments(t, execution_provider)]
    /\ UNCHANGED <<emitted, outRead, procVars, httpVars, actorVars,
                   uploads, reaperVars, program, outputs, argv>>

\* _run_subprocess up to its first await: builds the command, logs it and
\* starts asyncio.create_subprocess_exec.
RunSubprocessStart(t) ==
    /\ jobPc[t] = "created"
    /\ task_logs' = AppendLog(task_logs, t, Line("Executing command:", t, 0))
    /\ jobPc' = [jobPc EXCEPT ![t] = "spawning"]
    /\ UNCHANGED <<tasks, jobInputs, emitted, outRead, procVars, httpVars,
                   actorVars, uploads, reaperVars, program,
                   outputs, submitted, argv>>

\* The except branch of _run_subprocess (lines 127-130).
ExceptHandler(t) ==
    /\ tasks' = [tasks EXCEPT ![t] = "failed"]
    /\ task_logs' = AppendLog(task_logs, t, Line("Error:", t, 0))
    /\ jobPc' = [jobPc EXCEPT ![t] = "done"]

\* SpawnResult with the await outside the try: a launch that raises ends
\* the asyncio task with the exception and the record is left as it was.
SpawnResult_Propagates(t, launched) ==
    /\ jobPc[t] = "spawning"
    /\ IF launched
       THEN /\ proc' = [proc EXCEPT ![t] = "running"]
            /\ argv' = [argv EXCEPT ![t] = JobCommand(submitted[t])]
            /\ jobPc' = [jobPc EXCEPT ![t] = "stdout"]
       ELSE /\ jobPc' = [jobPc EXCEPT ![t] = "done"]
            /\ UNCHANGED <<proc, argv>>
    /\ UNCHANGED <<tasks, task_logs, jobInputs, emitted, outRead, returncode,
                   httpVars, actorVars, uploads, reaperVars, program,
                   outputs, submitted>>

\* await asyncio.create_subprocess_exec(...) completes: the process runs,
\* or the launch raised (executable missing, OS error).
SpawnResult(t, launched) ==
    /\ jobPc[t] = "spawning"
    /\ IF launched
       THEN /\ proc' = [proc EXCEPT ![t] = "running"]
            /\ argv' = [argv EXCEPT ![t] = JobCommand(submitted[t])]
            /\ jobPc' = [jobPc EXCEPT ![t] = "stdout"]
            /\ UNCHANGED <<tasks, task_logs>>
       ELSE /\ ExceptHandler(t)
            /\ UNCHANGED <<proc, argv>>
    /\ UNCHANGED <<jobInputs, emitted, outRead, returncode, httpVars,
                   actorVars, uploads, reaperVars, program,
                   outputs, submitted>>

\* Stderr lines sitting unread in the pipe and the StreamReader behind it:
\* the runner takes nothing from stderr before stderr.read() (line 112),
\* which it reaches only after stdout's EOF, so while the process lives
\* every stderr line it wrote is still there.
StderrUnread(t) == Len(StderrPositions(t))

\* The external process of a job submission writes one line to stdout or
\* stderr (the actor's subprocess.run captures and drops its child's output).
\* A stderr line needs room in the pipe; stdout is drained by the read loop.
ProcWrite(t, s) ==
    /\ proc[t] = "running"
    /\ jobPc[t] # "none"
    /\ TotalLines(TaskIds) < MaxLines
    /\ s = "stderr" => StderrUnread(t) < PipeCapacity
    /\ emitted' = [emitted EXCEPT ![t] = Append(@, s)]
    /\ UNCHANGED <<tasks, task_logs, jobPc, jobInputs, outRead, procVars,
                   httpVars, actorVars, uploads, reaperVars, program,
                   outputs, submitted, argv>>

\* The external process of a job submission writes to stderr while the pipe
\* is full: write() does not return until somebody reads, and the process
\* neither writes, closes stdout nor exits before it does.
ProcBlock(t) ==
    /\ proc[t] = "running"
    /\ jobPc[t] # "none"
    /\ StderrUnread(t) = PipeCapacity
    /\ proc' = [proc EXCEPT ![t] = "blocked"]
    /\ UNCHANGED <<jobVars, returncode, httpVars, actorVars, uploads,
                   reaperVars, program, outputs, submitted, argv>>

\* The external process exits with code rc; both of its pipes reach EOF.
\* A run that succeeds has written the file named by its -o option; only
\* face_swap names one inside OUTPUT_DIR.
ProcExit(t, rc) ==
    /\ proc[t] = "running"
    /\ proc' = [proc EXCEPT ![t] = "exited"]
    /\ returncode' = [returncode EXCEPT ![t] = rc]
    /\ outputs' = IF rc = 0 /\ outputPath[t] # None
                  THEN Put(outputs, outputPath[t], now) ELSE outputs
    /\ UNCHANGED <<jobVars, httpVars, actorVars, uploads, reaperVars, program,
                   submitted, argv>>

\* ReadLine with the try/except inside the loop: a line that cannot be
\* decoded marks the task failed and the loop goes on.
ReadLine_ExceptInsideLoop(t, decodable) ==
    /\ jobPc[t] = "stdout"
    /\ outRead[t] < Len(StdoutPositions(t))
    /\ outRead' = [outRead EXCEPT ![t] = @ + 1]
    /\ IF decodable
       THEN /\ task_logs' = AppendLog(task_logs, t,
                               Line("", t, StdoutPositions(t)[outRead[t] + 1]))
            /\ UNCHANGED tasks
       ELSE /\ tasks' = [tasks EXCEPT ![t] = "failed"]
            /\ task_logs' = AppendLog(task_logs, t, Line("Error:", t, 0))
    /\ UNCHANGED <<jobPc, jobInputs, emitted, procVars, httpVars, actorVars,
                   uploads, reaperVars, program,
                   outputs, submitted, argv>>

\* await process.stdout.readline() returns the next line (lines 104-109);
\* line.decode() raises on bytes that are not UTF-8.
ReadLine(t, decodable) ==
    /\ jobPc[t] = "stdout"
    /\ outRead[t] < Len(StdoutPositions(t))
    /\ outRead' = [outRead EXCEPT ![t] = @ + 1]
    /\ IF decodable
       THEN /\ task_logs' = AppendLog(task_logs, t,
                               Line("", t, StdoutPositions(t)[outRead[t] + 1]))
            /\ UNCHANGED <<tasks, jobPc>>
       ELSE ExceptHandler(t)
    /\ UNCHANGED <<jobInputs, emitted, procVars, httpVars, actorVars,
                   uploads, reaperVars, program,
                   outputs, submitted, argv>>

\* readline() returns b"" at EOF: `if not line: break` (lines 105-106).
ReadEOF(t) ==
    /\ jobPc[t] = "stdout"
    /\ outRead[t] = Len(StdoutPositions(t))
    /\ proc[t] = "exited"
    /\ jobPc' = [jobPc EXCEPT ![t] = "stderr"]
    /\ UNCHANGED <<tasks, task_logs, jobInputs, emitted, outRead, procVars,
                   httpVars, actorVars, uploads, reaperVars, program,
                   outputs, submitted, argv>>

\* await process.stderr.read() returns everything up to EOF (lines 112-117).
ReadStderr(t, decodable) ==
    /\ jobPc[t] = "stderr"
    /\ proc[t] = "exited"
    /\ IF decodable \/ StderrPositions(t) = <<>>
       THEN /\ task_logs' = [task_logs EXCEPT ![t] = @ \o ErrorLines(t)]
            /\ jobPc' = [jobPc EXCEPT ![t] = "waiting"]
            /\ UNCHANGED tasks
       ELSE ExceptHandler(t)
    /\ UNCHANGED <<jobInputs, emitted, outRead, procVars, httpVars, actorVars,
                   uploads, reaperVars, program,
                   outputs, submitted, argv>>

\* ProcessWait with an await between the status write and the final log
\* line: the status is visible one step before the line is.
ProcessWait_LogsAfterAwait(t) ==
    /\ jobPc[t] = "waiting"
    /\ proc[t] = "exited"
    /\ IF tasks[t] = "processing"
       THEN /\ tasks' = [tasks EXCEPT ![t] =
                            IF returncode[t] = 0 THEN "completed" ELSE "failed"]
            /\ UNCHANGED <<task_logs, jobPc>>
       ELSE /\ task_logs' = AppendLog(task_logs, t,
                               IF returncode[t] = 0
                               THEN Line("Task completed successfully", t, 0)
                               ELSE Line("Task failed with return code", t, returncode[t]))
            /\ jobPc' = [jobPc EXCEPT ![t] = "done"]
            /\ UNCHANGED tasks
    /\ UNCHANGED <<jobInputs, emitted, outRead, procVars, httpVars, actorVars,
                   uploads, reaperVars, program,
                   outputs, submitted, argv>>

\* ProcessWait with the return code ignored: every exit counts as success.
ProcessWait_IgnoresReturncode(t) ==
    /\ jobPc[t] = "waiting"
    /\ proc[t] = "exited"
    /\ tasks' = [tasks EXCEPT ![t] = "completed"]
    /\ task_logs' = AppendLog(task_logs, t, Line("Task completed successfully", t, 0))
    /\ jobPc' = [jobPc EXCEPT ![t] = "done"]
    /\ UNCHANGED <<jobInputs, emitted, outRead, procVars, httpVars, actorVars,
                   uploads, reaperVars, program,
                   outputs, submitted, argv>>

\* await process.wait() returns; lines 120-125 run without another await.
ProcessWait(t) ==
    /\ jobPc[t] = "waiting"
    /\ proc[t] = "exited"
    /\ IF returncode[t] = 0
       THEN /\ tasks' = [tasks EXCEPT ![t] = "completed"]
            /\ task_logs' = AppendLog(task_logs, t,
                               Line("Task completed successfully", t, 0))
       ELSE /\ tasks' = [tasks EXCEPT ![t] = "failed"]
            /\ task_logs' = AppendLog(task_logs, t,
                               Line("Task failed with return code", t, returncode[t]))
    /\ jobPc' = [jobPc EXCEPT ![t] = "done"]
    /\ UNCHANGED <<jobInputs, emitted, outRead, procVars, httpVars, actorVars,
                   uploads, reaperVars, program,
                   outputs, submitted, argv>>


\* ======================================================================
\* facefusion_actor.py
\* ======================================================================
ServiceActor == <<"service", 0>>       \* self.face_fusion_actor (__init__)
RequestActor(t) == <<"request", t>>    \* the actor face_swap creates for t
Actors == {ServiceActor} \cup {RequestActor(t) : t \in TaskIds}

\* FaceFusionActor.get_task_status on actor a
actor_get_task_status(a, t) == Get(actorTasks[a], t, "not_found")

\* The dict process_face_fusion returns.
Completed(path) == [status |-> "completed", output_path |-> path, error |-> None]
Failed(message) == [status |-> "failed", output_path |-> None, error |-> message]

\* The command list of process_face_fusion (lines 75-82).
ActorCommand(a) ==
    << Arg("python"), Arg(FACEFUSION_SCRIPT), Arg("headless-run"),
       Arg("-s"), a.source_path, Arg("-t"), a.target_path,
       Arg("-o"), a.output_path >>

\* process_face_fusion on actor a up to the blocking subprocess.run call:
\* marks the task, checks both inputs, makes the output directory, launches.
\* Any exception ends the call in the except branch (lines 108-115).
\* srcExists / tgtExists are what os.path.exists answers where the actor
\* runs, which need not be the node that saved the uploads.
ProcessFaceFusionStart(t, srcExists, tgtExists, dirOk, launched) ==
    LET a == RequestActor(t)
        cause == IF ~srcExists THEN <<"Source file not found:", t, "source">>
                 ELSE IF ~tgtExists THEN <<"Target file not found:", t, "target">>
                 ELSE IF ~dirOk THEN <<"makedirs:", t, "output">>
                 ELSE <<"launch:", t, "python">>
    IN
    /\ actorPc[t] = "queued"
    /\ IF srcExists /\ tgtExists /\ dirOk /\ launched
       THEN /\ actorTasks' = [actorTasks EXCEPT ![a] = Put(@, t, "processing")]
            /\ actorPc' = [actorPc EXCEPT ![t] = "running"]
            /\ proc' = [proc EXCEPT ![t] = "running"]
            /\ argv' = [argv EXCEPT ![t] = ActorCommand(submitted[t])]
            /\ UNCHANGED actorReturn
       ELSE /\ actorTasks' = [actorTasks EXCEPT ![a] = Put(@, t, "failed")]
            /\ actorPc' = [actorPc EXCEPT ![t] = "done"]
            /\ actorReturn' = [actorReturn EXCEPT ![t] = Failed(cause)]
            /\ UNCHANGED <<proc, argv>>
    /\ UNCHANGED <<jobVars, returncode, httpVars, uploads, reaperVars, program,
                   outputs, submitted>>

\* ProcessFaceFusionFinish with the success branch returning its dict
\* without storing `completed` first.
ProcessFaceFusionFinish_ReturnsUnstored(t) ==
    LET a == RequestActor(t) IN
    /\ actorPc[t] = "running"
    /\ proc[t] = "exited"
    /\ IF returncode[t] = 0
       THEN /\ actorReturn' = [actorReturn EXCEPT ![t] = Completed(outputPath[t])]
            /\ UNCHANGED actorTasks
       ELSE /\ actorTasks' = [actorTasks EXCEPT ![a] = Put(@, t, "failed")]
            /\ actorReturn' = [actorReturn EXCEPT ![t] =
                    Failed(<<"returned non-zero exit status", t, returncode[t]>>)]
    /\ actorPc' = [actorPc EXCEPT ![t] = "done"]
    /\ UNCHANGED <<jobVars, procVars, httpVars, uploads, reaperVars, program,
                   outputs, submitted, argv>>

\* subprocess.run(..., check=True) returns or raises CalledProcessError once
\* the child has exited; lines 96-115.
ProcessFaceFusionFinish(t) ==
    LET a == RequestActor(t) IN
    /\ actorPc[t] = "running"
    /\ proc[t] = "exited"
    /\ IF returncode[t] = 0
       THEN /\ actorTasks' = [actorTasks EXCEPT ![a] = Put(@, t, "completed")]
            /\ actorReturn' = [actorReturn EXCEPT ![t] = Completed(outputPath[t])]
       ELSE /\ actorTasks' = [actorTasks EXCEPT ![a] = Put(@, t, "failed")]
            /\ actorReturn' = [actorReturn EXCEPT ![t] =
                    Failed(<<"returned non-zero exit status", t, returncode[t]>>)]
    /\ actorPc' = [actorPc EXCEPT ![t] = "done"]
    /\ UNCHANGED <<jobVars, procVars, httpVars, uploads, reaperVars, program,
                   outputs, submitted, argv>>

\* ======================================================================
\* main_serve.py
\* ======================================================================
SourceFilename == <<"face", ".jpg">>

\* FileManager.save_upload_file: writes UPLOAD_DIR / f"{uid}_{filename}".
SaveUploadFile(dir, uid, filename) == Put(dir, UploadPathFor(uid, filename), now)

\* face_swap up to the end of line 208: saves both uploads, derives the
\* output path from the target's suffix, creates a new actor and sends it
\* process_face_fusion without waiting.  A failed save raises HTTP 500.
FaceSwap(t, targetFilename, saved) ==
    LET withSource == SaveUploadFile(uploads, <<t, "_source">>, SourceFilename)
        withBoth   == SaveUploadFile(withSource, <<t, "_target">>, targetFilename)
    IN
    /\ program = "main_serve"
    /\ Fresh(t)
    /\ CASE saved = "both" ->
              /\ uploads' = withBoth
              /\ outputPath' = [outputPath EXCEPT ![t] =
                                   OutputPathFor(t, Suffix(targetFilename))]
              /\ submitted' = [submitted EXCEPT ![t] =
                    [ source_path |-> UploadPathFor(<<t, "_source">>, SourceFilename),
                      target_path |-> UploadPathFor(<<t, "_target">>, targetFilename),
                      output_path |-> OutputPathFor(t, Suffix(targetFilename)) ]]
              /\ actorPc' = [actorPc EXCEPT ![t] = "queued"]
              /\ httpPc' = [httpPc EXCEPT ![t] = "dispatched"]
         [] saved = "source" ->
              /\ uploads' = withSource
              /\ httpPc' = [httpPc EXCEPT ![t] = "error500"]
              /\ UNCHANGED <<outputPath, actorPc, submitted>>
         [] OTHER ->
              /\ httpPc' = [httpPc EXCEPT ![t] = "error500"]
              /\ UNCHANGED <<uploads, outputPath, actorPc, submitted>>
    /\ UNCHANGED <<jobVars, procVars, actorTasks, actorReturn, reaperVars,
                   program, outputs, argv>>

\* FaceSwapReturn with the handler waiting for the actor's result first.
FaceSwapReturn_AwaitsActor(t) ==
    /\ httpPc[t] = "dispatched"
    /\ actorPc[t] = "done"
    /\ httpPc' = [httpPc EXCEPT ![t] = "acked"]
    /\ UNCHANGED <<jobVars, procVars, outputPath, actorVars, uploads,
                   reaperVars, program,
                   outputs, submitted, argv>>

\* face_swap lines 210-215: the handler returns its acknowledgement.
FaceSwapReturn(t) ==
    /\ httpPc[t] = "dispatched"
    /\ httpPc' = [httpPc EXCEPT ![t] = "acked"]
    /\ UNCHANGED <<jobVars, procVars, outputPath, actorVars, uploads,
                   reaperVars, program,
                   outputs, submitted, argv>>

\* FaceFusionResponse(task_id, status="processing", output_path)
Acknowledgement(t) ==
    [task_id |-> t, status |-> "processing", output_path |-> outputPath[t]]

\* `await x` needs an awaitable x.  ray.get(ref) has already resolved the
\* reference and returns the actor's plain str, which is not awaitable, so
\* line 226 raises TypeError whatever the status is.
IsAwaitable(value) == value \notin {"not_found", "processing", "completed", "failed"}

\* get_status: asks the actor made in __init__ (never the per-request actors),
\* awaits the answer, builds TaskStatus; any exception becomes HTTP 500.
\* TaskStatus.logs keeps its default [], result is the ".jpg" output name.
get_status(t) ==
    LET status == actor_get_task_status(ServiceActor, t) IN
    IF IsAwaitable(status)
    THEN [ status |-> status,
           logs   |-> <<>>,
           result |-> IF status = "completed"
                      THEN OutputPathFor(t, ".jpg") ELSE None ]
    ELSE [ status |-> "HTTPException 500", logs |-> <<>>, result |-> None ]


\* FileManager.cleanup_old_files: entries older than the cutoff are unlinked;
\* an entry whose stat/unlink raises is logged and skipped; a failure of
\* iterdir is caught by the outer except (lines 116-117).  Either way the
\* function returns normally: `raised` is what reaches its caller.
\* The entries of `failing` are those whose is_file/stat/unlink raises.

\* A subdirectory somebody made under UPLOAD_DIR (the service makes none),
\* written in the shape of the other entries.
Directories == {<<UPLOAD_DIR, <<0, "archive">>, <<"", "">>>>}

\* Path.is_file()
is_file(path) == path \notin Directories

\* datetime.fromtimestamp(st_mtime) < datetime.now() - timedelta(days=5)
Older(mtime) == mtime < now - CUTOFF_DAYS * DAY_SECONDS

\* Stale with the age test dropped: every regular file counts.
Stale_NoCutoff(dir) == {f \in DOMAIN dir : is_file(f)}

\* Stale with the is_file() test dropped: old directories count too.
Stale_WithDirectories(dir) == {f \in DOMAIN dir : Older(dir[f])}

\* The condition of line 108.
Stale(dir) == {f \in DOMAIN dir : is_file(f) /\ Older(dir[f])}

\* cleanup_old_files without the inner try: the first entry that raises
\* ends the loop in the outer except, here before anything was unlinked.
cleanup_old_files_AbortsOnFailure(dir, readable, failing) ==
    [ dir    |-> IF readable /\ failing = {}
                 THEN Remove(dir, Stale(dir)) ELSE dir,
      raised |-> FALSE ]

cleanup_old_files(dir, readable, failing) ==
    [ dir    |-> IF readable THEN Remove(dir, Stale(dir) \ failing) ELSE dir,
      raised |-> FALSE ]

\* One pass of _cleanup_loop up to its time.sleep call.
CleanupCycle(readable, failing) ==
    LET r == cleanup_old_files(uploads, readable, failing) IN
    /\ program = "main_serve"
    /\ reaperPc = "ready"
    /\ uploads' = r.dir
    /\ sleepFor' = IF r.raised THEN RETRY_SLEEP ELSE CLEANUP_SLEEP
    /\ listFailed' = ~readable
    /\ failedFiles' = IF readable THEN failing ELSE {}
    /\ reaperPc' = "sleeping"
    /\ UNCHANGED <<program, jobVars, procVars, httpVars, actorVars, now,
                   outputs, submitted, argv>>

\* time.sleep returns.
CleanupWake ==
    /\ reaperPc = "sleeping"
    /\ now + sleepFor <= MaxDays * DAY_SECONDS
    /\ now' = now + sleepFor
    /\ reaperPc' = "ready"
    /\ UNCHANGED <<program, jobVars, procVars, httpVars, actorVars, uploads,
                   sleepFor, listFailed, failedFiles, outputs, submitted, argv>>

\* ======================================================================
\* Specifications
\* ======================================================================
Init ==
    /\ program \in {"facefusion_job", "main_serve"}
    /\ tasks = EmptyDict
    /\ task_logs = EmptyDict
    /\ jobPc = [t \in TaskIds |-> "none"]
    /\ jobInputs = [t \in TaskIds |-> <<TRUE, TRUE>>]
    /\ emitted = [t \in TaskIds |-> <<>>]
    /\ outRead = [t \in TaskIds |-> 0]
    /\ proc = [t \in TaskIds |-> "none"]
    /\ returncode = [t \in TaskIds |-> 0]
    /\ httpPc = [t \in TaskIds |-> "none"]
    /\ outputPath = [t \in TaskIds |-> None]
    /\ actorTasks = [a \in Actors |-> EmptyDict]
    /\ actorPc = [t \in TaskIds |-> "none"]
    /\ actorReturn = [t \in TaskIds |-> None]
    /\ now = 0
    /\ uploads \in IF program = "main_serve"
                   THEN {EmptyDict, [d \in Directories |-> 0]}
                   ELSE {EmptyDict}
    /\ reaperPc = "ready"
    /\ sleepFor = 0
    /\ listFailed = FALSE
    /\ failedFiles = {}
    /\ outputs = EmptyDict
    /\ submitted = [t \in TaskIds |-> None]
    /\ argv = [t \in TaskIds |-> None]

\* The task engines: submissions and their execution.  The job engine never
\* reads whether its input paths exist and copies the execution provider
\* into the command, so Spec submits existing paths with the default
\* provider and InputSpec adds the other submissions.
Next ==
    \/ \E t \in TaskIds :
          RunFacefusionWithRayJob(t, TRUE, TRUE, EXECUTION_PROVIDER)
    \/ \E t \in TaskIds : RunSubprocessStart(t)
    \/ \E t \in TaskIds, launched \in BOOLEAN : SpawnResult(t, launched)
    \/ \E t \in TaskIds, s \in Streams : ProcWrite(t, s)
    \/ \E t \in TaskIds : ProcBlock(t)
    \/ \E t \in TaskIds, rc \in ExitCodes : ProcExit(t, rc)
    \/ \E t \in TaskIds, d \in BOOLEAN : ReadLine(t, d)
    \/ \E t \in TaskIds : ReadEOF(t)
    \/ \E t \in TaskIds, d \in BOOLEAN : ReadStderr(t, d)
    \/ \E t \in TaskIds : ProcessWait(t)
    \/ \E t \in TaskIds, f \in Filenames, saved \in {"both", "source", "none"} :
          FaceSwap(t, f, saved)
    \/ \E t \in TaskIds : FaceSwapReturn(t)
    \/ \E t \in TaskIds, s \in BOOLEAN, g \in BOOLEAN, d \in BOOLEAN, l \in BOOLEAN :
          ProcessFaceFusionStart(t, s, g, d, l)
    \/ \E t \in TaskIds : ProcessFaceFusionFinish(t)

Spec == Init /\ [][Next]_vars

InputNext ==
    \/ Next
    \/ \E t \in TaskIds, s \in BOOLEAN, g \in BOOLEAN, p \in Providers :
          /\ ~(s /\ g /\ p = EXECUTION_PROVIDER)
          /\ RunFacefusionWithRayJob(t, s, g, p)

InputSpec == Init /\ [][InputNext]_vars

\* The cleanup thread next to incoming uploads.  An entry that raises
\* without being due for removal changes nothing but the error log, so the
\* failing entries are drawn from the stale ones.
ReaperNext ==
    \/ \E readable \in BOOLEAN, failing \in SUBSET Stale(uploads) :
          Cardinality(failing) <= MaxFailing /\ CleanupCycle(readable, failing)
    \/ CleanupWake
    \/ \E t \in TaskIds, f \in Filenames, saved \in {"both", "source", "none"} :
          FaceSwap(t, f, saved)

ReaperSpec == Init /\ [][ReaperNext]_vars

\* The cleanup thread next to the tasks of the service: their uploads,
\* their actors' records and their output files.  Tasks take minutes and
\* the thread wakes once a day: the tasks here all run within the first day.
ServiceNext ==
    \/ \E readable \in BOOLEAN : CleanupCycle(readable, {})
    \/ CleanupWake
    \/ /\ now = 0
       /\ \/ \E t \in TaskIds, f \in Filenames : FaceSwap(t, f, "both")
          \/ \E t \in TaskIds, l \in BOOLEAN :
                ProcessFaceFusionStart(t, TRUE, TRUE, TRUE, l)
          \/ \E t \in TaskIds, rc \in ExitCodes : ProcExit(t, rc)
          \/ \E t \in TaskIds : ProcessFaceFusionFinish(t)

ServiceSpec == Init /\ [][ServiceNext]_vars

\* ======================================================================
\* Claims
\* ======================================================================
LineTexts(logs) == {logs[i][1] : i \in 1..Len(logs)}

\* C1 (as stated): once Submit has returned for a submission whose inputs
\* exist, and until the external process has exited, Query answers
\* `processing` - for GET /status after POST /swap and for get_task_status
\* after run_facefusion_with_ray_job.
C1_QueryAfterSubmitIsProcessing ==
    \A t \in TaskIds :
        /\ (httpPc[t] = "acked" /\ proc[t] # "exited" /\ actorPc[t] # "done")
              => get_status(t).status = "processing"
        /\ (jobPc[t] \in {"created", "spawning", "stdout", "stderr", "waiting"}
               /\ jobInputs[t] = <<TRUE, TRUE>> /\ proc[t] # "exited")
              => get_task_status(t).status = "processing"

\* C2 (as stated): a task whose process exited with code 0 and whose unit has
\* finished is reported `completed`, with the result path equal to the
\* output path acknowledged at submission.
C2_ExitZeroIsCompletedWithAckPath ==
    \A t \in TaskIds :
        /\ (httpPc[t] = "acked" /\ actorPc[t] = "done" /\ proc[t] = "exited"
               /\ returncode[t] = 0)
              => /\ get_status(t).status = "completed"
                 /\ get_status(t).result = Acknowledgement(t).output_path
        /\ (jobPc[t] = "done" /\ proc[t] = "exited" /\ returncode[t] = 0
               /\ "Error:" \notin LineTexts(task_logs[t]))
              => get_task_status(t).status = "completed"

C4_MissingInputFailsAtSubmit ==
    \A t \in TaskIds :
        (jobPc[t] # "none" /\ jobInputs[t] # <<TRUE, TRUE>>)
           => /\ get_task_status(t).status = "failed"
              /\ proc[t] = "none"

\* C5: per task id the stored status only moves forward - in the job registry
\* from absent to `processing` to `completed` or `failed`, in an actor's map
\* from absent to `processing` or straight to `failed` (a call that fails
\* before it launches), then to a terminal value - and a terminal status never
\* changes again.
Forward(old, new, created) ==
    \/ new = old
    \/ old = "not_found" /\ new \in created
    \/ old = "processing" /\ new \in Terminal

C5_StatusMonotonic ==
    [][ \A t \in TaskIds :
          /\ Forward(Get(tasks, t, "not_found"), Get(tasks', t, "not_found"),
                     {"processing"})
          /\ \A a \in Actors :
                Forward(Get(actorTasks[a], t, "not_found"),
                        Get(actorTasks'[a], t, "not_found"),
                        {"processing", "failed"}) ]_vars

\* C5 witness: after a line could not be decoded the task is `failed` while
\* its process has gone on and exited with code 0; another task is
\* `completed`.
C5_Witness ==
    \E t, u \in TaskIds :
        /\ Get(tasks, t, "not_found") = "failed"
        /\ proc[t] = "exited" /\ returncode[t] = 0
        /\ Get(tasks, u, "not_found") = "completed"

\* C6: the logs get_task_status returns only grow by appending - what it
\* returns in a state is a prefix of what it returns in the next - and once
\* the returned status is terminal the returned logs never change.
C6_LogsPrefixStableThenFrozen ==
    [][ \A t \in TaskIds :
          LET old == Get(task_logs, t, <<>>)
              new == Get(task_logs', t, <<>>)
          IN /\ IsPrefix(old, new)
             /\ Get(tasks, t, "not_found") \in Terminal => new = old ]_vars

\* C6 witness: a finished task whose logs hold the header, the command line,
\* output of both streams and the closing line.
C6_Witness ==
    \E t \in TaskIds :
        /\ get_task_status(t).status \in Terminal
        /\ Len(get_task_status(t).logs) = Len(HeaderLines(t)) + 2 + MaxLines
        /\ {"", "ERROR:"} \subseteq LineTexts(get_task_status(t).logs)

\* C7 (as stated): for an id never submitted every status query - the
\* job module's, any actor's, GET /status - answers `not_found` with no logs
\* and no result.
NotFoundResponse == [status |-> "not_found", logs |-> <<>>, result |-> None]

C7_UnknownIdIsNotFound ==
    \A t \in TaskIds :
        Fresh(t) =>
            /\ get_task_status(t) = NotFoundResponse
            /\ \A a \in Actors : actor_get_task_status(a, t) = "not_found"
            /\ get_status(t) = NotFoundResponse

\* C8: a task's logs hold only lines produced for that task, each process
\* line under the stream it was written to, and a task's status is decided
\* by its own unit alone: it stays `processing` until that unit ends,
\* `completed` needs its own process to have exited with 0, and a recorded
\* return code is its own.
C8_NoCrossTaskInterference ==
    \A t \in DOMAIN task_logs :
        LET logs == task_logs[t] IN
        /\ \A i \in 1..Len(logs) :
              /\ logs[i][2] = t
              /\ logs[i][1] = "" =>
                    logs[i][3] \in 1..Len(emitted[t]) /\ emitted[t][logs[i][3]] = "stdout"
              /\ logs[i][1] = "ERROR:" =>
                    logs[i][3] \in 1..Len(emitted[t]) /\ emitted[t][logs[i][3]] = "stderr"
              /\ logs[i][1] = "Task failed with return code" =>
                    logs[i][3] = returncode[t] /\ proc[t] = "exited"
        /\ tasks[t] # "processing" => jobPc[t] = "done"
        /\ tasks[t] = "completed" => proc[t] = "exited" /\ returncode[t] = 0
        /\ tasks[t] = "failed" =>
              \/ "Error:" \in LineTexts(logs)
              \/ proc[t] = "exited" /\ returncode[t] # 0

\* C8 witness: two job tasks ran side by side, both wrote output that was
\* logged, one has completed and the other is still being read.
C8_Witness ==
    \E t, u \in TaskIds :
        /\ t # u
        /\ {t, u} \subseteq DOMAIN task_logs
        /\ tasks[t] = "completed" /\ "" \in LineTexts(task_logs[t])
        /\ tasks[u] = "processing" /\ "" \in LineTexts(task_logs[u])
        /\ proc[u] = "running"

\* C9: Submit returns without waiting for the external process.  Once
\* face_swap has sent the actor call, its return is possible in every state:
\* whether the actor has started, whether the process runs, has exited or
\* never will.  And when run_facefusion_with_ray_job has returned, the record
\* is `processing` and no process has been started yet.
C9_SubmitReturnsWithoutWaiting ==
    \A t \in TaskIds :
        /\ httpPc[t] = "dispatched" => ENABLED FaceSwapReturn(t)
        /\ jobPc[t] = "created" =>
              proc[t] = "none" /\ get_task_status(t).status = "processing"

\* C9 witness: face_swap has returned its acknowledgement for two tasks, one
\* whose external process is still running and one whose actor call has
\* not even started.
C9_Witness ==
    \E t, u \in TaskIds :
        /\ httpPc[t] = "acked" /\ proc[t] = "running"
        /\ Acknowledgement(t).status = "processing"
        /\ httpPc[u] = "acked" /\ actorPc[u] = "queued"

\* C10 (as stated): after a cycle in which UPLOAD_DIR could not be
\* enumerated the cleanup thread sleeps the one-hour backoff.
C10_ListFailureSleepsBackoff ==
    (reaperPc = "sleeping" /\ listFailed) => sleepFor = RETRY_SLEEP

\* C11: a cleanup cycle that enumerated UPLOAD_DIR leaves no regular file
\* that was older than the cutoff when the cycle began, except the entries
\* whose stat/unlink raised; and no step of any cycle, however many run,
\* removes or touches a file newer than the cutoff.
C11_StaleRemovedFreshKept ==
    [][ /\ \A f \in DOMAIN uploads :
              uploads[f] > now - CUTOFF_DAYS * DAY_SECONDS
                 => f \in DOMAIN uploads' /\ uploads'[f] = uploads[f]
        /\ (reaperPc = "ready" /\ reaperPc' = "sleeping" /\ ~listFailed')
              => \A f \in DOMAIN uploads :
                    (is_file(f) /\ Older(uploads[f]) /\ f \notin failedFiles')
                       => f \notin DOMAIN uploads' ]_vars

\* C11 witness: after a cycle in which nothing raised, the uploads of one
\* request are gone and those of a later request are still there.
C11_Witness ==
    \E t, u \in TaskIds :
        /\ reaperPc = "sleeping" /\ ~listFailed /\ failedFiles = {}
        /\ httpPc[t] = "dispatched" /\ httpPc[u] = "dispatched"
        /\ submitted[t].source_path \notin DOMAIN uploads
        /\ submitted[t].target_path \notin DOMAIN uploads
        /\ {submitted[u].source_path, submitted[u].target_path}
              \subseteq DOMAIN uploads

\* C12 (as stated): in every answer to a status query - get_task_status of
\* the job module, GET /status - a result path is present exactly when the
\* reported status is `completed`.
C12_ResultIffCompleted ==
    \A t \in TaskIds :
        /\ get_task_status(t).result # None
              <=> get_task_status(t).status = "completed"
        /\ get_status(t).result # None <=> get_status(t).status = "completed"

\* What the runner of task t, and what its external process, can do next.
RunnerStep(t) ==
    \/ RunSubprocessStart(t)
    \/ \E launched \in BOOLEAN : SpawnResult(t, launched)
    \/ \E d \in BOOLEAN : ReadLine(t, d)
    \/ ReadEOF(t)
    \/ \E d \in BOOLEAN : ReadStderr(t, d)
    \/ ProcessWait(t)

ProcStep(t) ==
    \/ \E s \in Streams : ProcWrite(t, s)
    \/ ProcBlock(t)
    \/ \E rc \in ExitCodes : ProcExit(t, rc)

ActorStep(t) ==
    \/ \E s \in BOOLEAN, g \in BOOLEAN, d \in BOOLEAN, l \in BOOLEAN :
          ProcessFaceFusionStart(t, s, g, d, l)
    \/ \E rc \in ExitCodes : ProcExit(t, rc)
    \/ ProcessFaceFusionFinish(t)

\* C13: an exception while a task is orchestrated stays inside its unit.
\* A unit that ended without its process having exited (the launch raised, a
\* line could not be decoded) has stored `failed` and the exception line as
\* the last log line; an actor call that ended without a process (missing
\* input, makedirs or launch raised) has stored `failed` and returned the
\* error text; and every other task that is under way can still take a step.
Raised(t) ==
    \/ jobPc[t] = "done" /\ proc[t] # "exited"
    \/ actorPc[t] = "done" /\ proc[t] = "none"

C14_RunnerNeverStuck ==
    \A t \in TaskIds :
        jobPc[t] \notin {"none", "done"} =>
            ENABLED (RunnerStep(t) \/ ProcStep(t))

\* C15 (as stated): the process lines in a task's logs are in the order the
\* process wrote them, stdout and stderr interleaved, and each line written
\* to stderr is tagged.
IsProcLine(line) == line[1] \in {"", "ERROR:"}

C15_LogsInEmissionOrder ==
    \A t \in DOMAIN task_logs :
        LET logs == task_logs[t] IN
        /\ \A i, j \in 1..Len(logs) :
              (i < j /\ IsProcLine(logs[i]) /\ IsProcLine(logs[j]))
                 => logs[i][3] < logs[j][3]
        /\ \A i \in 1..Len(logs) :
              (IsProcLine(logs[i]) /\ emitted[t][logs[i][3]] = "stderr")
                 => logs[i][1] = "ERROR:"

\* C16 (as stated): while the process of a task is alive and its runner is
\* reading, a line the process has written and that is not yet in the logs
\* can be read into them now, whichever stream it was written to.
Logged(t, k) ==
    \E i \in 1..Len(task_logs[t]) :
        IsProcLine(task_logs[t][i]) /\ task_logs[t][i][3] = k

Pending(t, s) ==
    \E k \in 1..Len(emitted[t]) : emitted[t][k] = s /\ ~Logged(t, k)

C16_OutputVisibleWhileRunning ==
    \A t \in TaskIds :
        (proc[t] \in {"running", "blocked"} /\ jobPc[t] = "stdout") =>
            /\ Pending(t, "stdout") => ENABLED ReadLine(t, TRUE)
            /\ Pending(t, "stderr") => ENABLED ReadStderr(t, TRUE)

\* C17: wherever get_task_status can run - between two atomic stretches of
\* the coroutines - an id has a status entry exactly if it has a logs entry,
\* a record that exists is never returned with the empty default logs, and
\* every line in the returned logs is a whole line.
WholeLine(line) ==
    /\ Len(line) = 3
    /\ line[1] \in {"Starting task", "Source:", "Target:", "Output:",
                    "Executing command:", "", "ERROR:", "Error:",
                    "Task completed successfully",
                    "Task failed with return code"}

C17_RecordIsWhole ==
    /\ DOMAIN tasks = DOMAIN task_logs
    /\ \A t \in TaskIds :
          LET r == get_task_status(t) IN
          /\ r.status = "not_found" => r.logs = <<>>
          /\ r.status # "not_found" => IsPrefix(HeaderLines(t), r.logs)
          /\ \A i \in 1..Len(r.logs) : WholeLine(r.logs[i])

\* C17 witness: one record has just been created and holds its status and
\* its header lines, while another task's output is being appended.
C17_Witness ==
    \E t, u \in TaskIds :
        /\ jobPc[t] = "created"
        /\ get_task_status(t).status = "processing"
        /\ get_task_status(t).logs = HeaderLines(t)
        /\ jobPc[u] = "stdout" /\ "" \in LineTexts(task_logs[u])

\* C18: a cleanup cycle in which the stat/unlink of some entry raised still
\* removes every other stale regular file, and is followed by the same
\* one-day sleep as a cycle without failures.
C18_FileFailureSkipsOnlyThatFile ==
    (reaperPc = "sleeping" /\ failedFiles # {}) =>
        /\ Stale(uploads) \subseteq failedFiles
        /\ sleepFor = CLEANUP_SLEEP

\* C18 witness: in the first cycle that finds stale files the source upload
\* of a request raised and is still there, and the target upload of the
\* same request, as old, was removed.
C18_Witness ==
    \E t \in TaskIds :
        /\ reaperPc = "sleeping" /\ now = (CUTOFF_DAYS + 1) * DAY_SECONDS
        /\ httpPc[t] = "dispatched"
        /\ failedFiles = {submitted[t].source_path}
        /\ submitted[t].source_path \in DOMAIN uploads
        /\ submitted[t].target_path \notin DOMAIN uploads

\* C19 (as stated): the argument list every external process was started
\* with names the non-interactive sub-command, the three paths the unit
\* was given, and an execution provider: the one passed to the unit, or
\* EXECUTION_PROVIDER where the unit takes none.
HasOption(command, flag, value) ==
    \E i \in 1..(Len(command) - 1) :
        command[i] = Arg(flag) /\ command[i + 1] = value

C19_CommandCarriesPathsAndProvider ==
    \A t \in TaskIds :
        argv[t] # None =>
            /\ \E i \in 1..Len(argv[t]) : argv[t][i] = Arg("headless-run")
            /\ HasOption(argv[t], "-s", submitted[t].source_path)
            /\ HasOption(argv[t], "-t", submitted[t].target_path)
            /\ HasOption(argv[t], "-o", submitted[t].output_path)
            /\ HasOption(argv[t], "--execution-provider",
                         Arg(IF "execution_provider" \in DOMAIN submitted[t]
                             THEN submitted[t].execution_provider
                             ELSE EXECUTION_PROVIDER))

\* C20: a cleanup cycle changes nothing but UPLOAD_DIR, and there only by
\* removing regular files older than the cutoff: the task records of every
\* actor and of the job registry, the files in OUTPUT_DIR and every
\* directory stay as they were.
C20_CleanupOnlyRemovesStaleUploads ==
    [][ (reaperPc = "ready" /\ reaperPc' = "sleeping") =>
          /\ UNCHANGED <<tasks, task_logs, actorTasks, actorReturn>>
          /\ UNCHANGED outputs
          /\ \A f \in DOMAIN uploads' :
                f \in DOMAIN uploads /\ uploads'[f] = uploads[f]
          /\ \A f \in DOMAIN uploads \ DOMAIN uploads' :
                is_file(f) /\ Older(uploads[f])
          /\ UNCHANGED <<jobVars, procVars, httpVars, actorVars, submitted,
                         argv>> ]_vars

\* C20 witness: after a cycle that removed the uploads of a finished task,
\* the actor's record of the task, its output file - as old as the uploads
\* were - and an old subdirectory of UPLOAD_DIR are all still there.
C20_Witness ==
    \E t \in TaskIds :
        /\ reaperPc = "sleeping" /\ ~listFailed
        /\ actor_get_task_status(RequestActor(t), t) = "completed"
        /\ submitted[t].source_path \notin DOMAIN uploads
        /\ submitted[t].target_path \notin DOMAIN uploads
        /\ outputPath[t] \in DOMAIN outputs /\ Older(outputs[outputPath[t]])
        /\ \E d \in Directories : d \in DOMAIN uploads /\ Older(uploads[d])

\* C21: a task record has one writer.  Once the record of an id exists in
\* the job registry, every step that changes its status or its logs is a
\* step of the runner started for that id; an id is only ever recorded in
\* the map of the actor made for it, and every step that changes that entry
\* is a step of that actor's one process_face_fusion call.
C21_OneWriterPerRecord ==
    [][ \A t \in TaskIds :
          /\ (t \in DOMAIN tasks /\ t \in DOMAIN task_logs
                 /\ <<tasks'[t], task_logs'[t]>> # <<tasks[t], task_logs[t]>>)
                => RunnerStep(t)
          /\ \A a \in Actors :
                Get(actorTasks'[a], t, "not_found") # Get(actorTasks[a], t, "not_found")
                   => a = RequestActor(t) /\ ActorStep(t) ]_vars

\* C21 witness: the runners of two job tasks are both reading their
\* processes' output and each has appended a line to its own record.
C21_Witness ==
    \E t, u \in TaskIds :
        /\ t # u
        /\ jobPc[t] = "stdout" /\ jobPc[u] = "stdout"
        /\ proc[t] = "running" /\ proc[u] = "running"
        /\ "" \in LineTexts(task_logs[t]) /\ "" \in LineTexts(task_logs[u])

====
